---- MODULE Spec2Model ----
(***************************************************************************)
(* Request lifecycle of the image-generation bot.                          *)
(*                                                                         *)
(* Receiver side (src/Main/custom_commands/web_handlers.py): the registry  *)
(* bot.pending_requests, the aiohttp handlers handle_generated_image       *)
(* (POST /send_image) and update_progress (POST /update_progress), and the *)
(* per-request coroutine check_timeout.  All of them run on one asyncio    *)
(* loop: code between two awaits is one atomic step, and every await is a  *)
(* point where the other coroutines may run.                               *)
(*                                                                         *)
(* Job runner side (src/comfygen.py): one process per request that pushes  *)
(* progress events and, on success, the final image to the receiver.       *)
(***************************************************************************)
EXTENDS Naturals, FiniteSets, Sequences, TLC

\* ------------------------------------------------------------------ bounds
NumSendImage == 2      \* POST /send_image calls received over a run
NumUpdateProgress == 1 \* POST /update_progress calls received over a run
MaxNodes == 2          \* nodes with images in the outputs of a job
MaxItems == 2          \* images in the output of one node
MaxSteps == 10         \* value and max of a progress message of the backend
MaxPercentSteps == 50  \* max of a progress message whose percentage is computed

\* Every handler reads and writes the registry under the one key its request
\* names, and check_timeout under its own request_id: the model follows one
\* submitted request.  Before its submission and after its removal its id
\* is an id the registry does not know.
Ids == {"r1"}
NoId == ""             \* the request_id field is missing or empty
SendImageCalls == 1..NumSendImage
ProgressCalls == 1..NumUpdateProgress

\* ------------------------------------------------------- request contents
\* handle_generated_image, lines 20-33: the keys of request_data.
request_data_fields ==
    {"request_id", "user_id", "channel_id", "interaction_id",
     "original_message_id", "prompt", "resolution", "upscaled_resolution",
     "loras", "upscale_factor", "seed", "image_data"}

\* Mutant of required_fields: the binary part is not required.
required_fields_NoImageData ==
    {"request_id", "user_id", "channel_id", "interaction_id",
     "original_message_id", "prompt", "resolution"}

\* handle_generated_image: the fields every /send_image body must carry.
required_fields ==
    {"request_id", "user_id", "channel_id", "interaction_id",
     "original_message_id", "prompt", "resolution", "image_data"}

\* A /send_image body: the request id it names and the fields that are
\* missing or empty in it.  Bodies lacking several fields behave like bodies
\* lacking one of them, so one absent field per body is enough.  The parts
\* that are present parse (a loras part that is no JSON ends the handler at
\* lines 182-184 before anything is validated).
Bodies(fields) ==
    [rid : Ids, absent : {{}} \cup {{f} : f \in fields \ {"request_id"}}]
    \cup {[rid |-> NoId, absent |-> {"request_id"}]}

\* Every body with at most one field absent.
SendImageBodies == Bodies(request_data_fields)

\* The bodies sent where calls of both kinds run concurrently: complete,
\* without request id, without the binary part.
ClientBodies == Bodies({"image_data"})

NoBody == [rid |-> NoId, absent |-> {}]

\* The status values the job runner pushes (comfygen.py) and
\* update_progress_message looks up in its table of status messages.
ProgressStatuses ==
    {"starting", "loading", "generating", "cached", "finalizing", "complete", "error"}

\* An /update_progress body.  json = FALSE is a body request.json() cannot
\* turn into a dict; 'processing' is a status the table does not hold.
ProgressBodies ==
    [rid : Ids \cup {NoId}, status : ProgressStatuses \cup {"processing"},
     json : {TRUE}]
    \cup {[rid |-> NoId, status |-> "error", json |-> FALSE]}

\* The events sent where calls of both kinds run concurrently: one status
\* for each shape of the displayed text (update_progress_message).
ClientProgress ==
    [rid : Ids \cup {NoId}, status : {"generating", "error", "complete"}, json : {TRUE}]
    \cup {[rid |-> NoId, status |-> "error", json |-> FALSE]}

NoProgress == [rid |-> NoId, status |-> "starting", json |-> TRUE]

\* No push was made by the latest step of the runner.
NoPush == [status |-> "none", result |-> "none"]

\* Python's None where a tuple is expected.
None == <<>>

\* The events of a run pushed so far: how many of them were terminal
\* ('complete' or 'error'), and whether one was pushed after a terminal one.
TerminalStatuses == {"complete", "error"}
NoEvents == [terminal |-> 0, later |-> FALSE]

\* queue_prompt has not returned: prompt_response is not bound.
NoResponse == [unbound |-> TRUE]

\* What queue_prompt returns (json.loads of the backend's answer): a dict
\* with the prompt id, or one without it.
PromptResponses == {[prompt_id |-> "p1"], [error |-> "invalid prompt"]}

\* The frames ws.recv() returns in get_images, progress reports apart: the
\* type of the message (binary stands for a frame that is no str), and for
\* 'executing' whether str(data) names a loader node, data['node'] and
\* data['prompt_id'].
StreamMessages ==
    [type : {"executing"}, loader : BOOLEAN, node : {None, <<"198:2">>},
     prompt_id : {"p1", "p2"}]
    \cup [type : {"execution_start", "execution_cached", "status", "binary"},
          loader : {FALSE}, node : {None}, prompt_id : {"p1"}]

\* What is remembered of the progress messages of the backend: max and
\* value of the latest one and the percentage get_images computed for it,
\* whether the messages so far started at 0, kept one max and never went
\* back, and the multiples of 10 their percentages reached.  Once the
\* messages are not monotonic nothing more is remembered.
NoMessages ==
    [max |-> 0, value |-> 0, progress |-> 0, monotonic |-> TRUE, visited |-> {}]
NotMonotonic ==
    [max |-> 0, value |-> 0, progress |-> 0, monotonic |-> FALSE, visited |-> {}]

\* Outcome of a call into the notification collaborator (discord.py).
Outcomes == {"ok", "NotFound", "Forbidden", "Exception"}

\* ----------------------------------------------------------------- state
VARIABLES
    pending_requests,  \* bot.pending_requests: the ids that are pending
    ct_pc,             \* check_timeout(id): position of the coroutine
    hgi_pc,            \* handle_generated_image call: position
    hgi_req,           \* its request_data
    hgi_resp,          \* the web.Response it returned (its text)
    up_pc,             \* update_progress call: position
    up_req,            \* its body
    up_resp,           \* the web.Response it returned (its text)
    message,           \* the notification target of each request
    history,           \* add_to_history calls of the receiver, per id
    delivered,         \* final-image edits applied to the target, per id
    timed_out,         \* timeout edits applied to the target, per id
    removed_by,        \* who executed `del pending_requests[id]`
    log,               \* logger.error records of check_timeout
    in_time,           \* ids whose /send_image returned 200 while the
                       \* timer of the id was still asleep
    job_pc,            \* the job runner process of each request: position
    job_call,          \* the /send_image call the runner waits for
    job_history,       \* add_to_history calls of the runner, per id
    job_push,          \* the push made by the runner's latest step: its
                       \* status and what became of it (the runner's log)
    pushed,            \* the events the runner pushed so far, summed up
    argc,              \* len(sys.argv) - 1 of the runner process
    seed,              \* the runner's variable seed
    resolution,        \* the runner's variable resolution
    upscale_factor,    \* the runner's variable upscale_factor
    upscaled_resolution, \* the runner's variable upscaled_resolution
    images,            \* the runner's variable images (get_images' result)
    final_image,       \* the runner's variable final_image
    last_milestone,    \* get_images' variable last_milestone
    emitted,           \* the 'generating' events get_images pushed: the
                       \* milestone floor(progress / 10) * 10 of each
    backend,           \* the progress messages the backend sent so far
    prompt_response,   \* get_images' variable prompt_response
    ws                 \* the runner's variable ws: the streaming session

vars == <<pending_requests, ct_pc, hgi_pc, hgi_req, hgi_resp, up_pc, up_req,
          up_resp, message, history, delivered, timed_out, removed_by, log,
          in_time, job_pc, job_call, job_history, job_push, pushed, argc,
          seed, resolution, upscale_factor, upscaled_resolution, images,
          final_image, last_milestone, emitted, backend, prompt_response,
          ws>>

argv_vars == <<argc, seed, resolution, upscale_factor, upscaled_resolution>>
arg_vars == <<argv_vars, ws>>
select_vars == <<images, final_image>>
stream_vars == <<last_milestone, emitted, backend, prompt_response>>
job_vars == <<job_pc, job_call, job_history, job_push, pushed, arg_vars,
              select_vars, stream_vars>>
hgi_vars == <<hgi_pc, hgi_req, hgi_resp>>
up_vars == <<up_pc, up_req, up_resp>>
target_vars == <<message, delivered, timed_out>>

\* HTTP status of a response of handle_generated_image / update_progress.
StatusOf(text) ==
    CASE text = "Success" -> 200
      [] text = "Progress updated" -> 200
      [] text = "Missing required data" -> 400
      [] text = "Missing request_id" -> 400
      [] text = "Unknown request" -> 404
      [] text = "Unknown request_id" -> 404
      [] text = "Channel or message not found" -> 404
      [] text = "Permission denied" -> 403
      [] OTHER -> 500

\* The message a request's interaction created: progress text, no embed.
InitialMessage == [content |-> "initial", embed |-> FALSE]

Init ==
    /\ pending_requests = {}
    /\ ct_pc = [i \in Ids |-> "unarmed"]
    /\ hgi_pc = [h \in SendImageCalls |-> "idle"]
    /\ hgi_req = [h \in SendImageCalls |-> NoBody]
    /\ hgi_resp = [h \in SendImageCalls |-> "none"]
    /\ up_pc = [p \in ProgressCalls |-> "idle"]
    /\ up_req = [p \in ProgressCalls |-> NoProgress]
    /\ up_resp = [p \in ProgressCalls |-> "none"]
    /\ message = [i \in Ids |-> InitialMessage]
    /\ history = [i \in Ids |-> 0]
    /\ delivered = [i \in Ids |-> 0]
    /\ timed_out = [i \in Ids |-> 0]
    /\ removed_by = [i \in Ids |-> {}]
    /\ log = {}
    /\ in_time = {}
    /\ job_pc = [i \in Ids |-> "off"]
    /\ job_call = [i \in Ids |-> 0]
    /\ job_history = [i \in Ids |-> 0]
    /\ job_push = [i \in Ids |-> NoPush]
    /\ pushed = [i \in Ids |-> NoEvents]
    /\ argc = [i \in Ids |-> 0]
    /\ seed = [i \in Ids |-> "unbound"]
    /\ resolution = [i \in Ids |-> "unbound"]
    /\ upscale_factor = [i \in Ids |-> 0]
    /\ upscaled_resolution = [i \in Ids |-> "unbound"]
    /\ images = [i \in Ids |-> <<>>]
    /\ final_image = [i \in Ids |-> None]
    /\ last_milestone = [i \in Ids |-> 0]
    /\ emitted = [i \in Ids |-> <<>>]
    /\ backend = [i \in Ids |-> NoMessages]
    /\ prompt_response = [i \in Ids |-> NoResponse]
    /\ ws = [i \in Ids |-> "unbound"]

\* ------------------------------------------------------------- submission
\* A caller enqueues a request: the registry records it and the timeout
\* supervisor starts its clock.
Submit(i) ==
    /\ ct_pc[i] = "unarmed"
    /\ pending_requests' = pending_requests \cup {i}
    /\ ct_pc' = [ct_pc EXCEPT ![i] = "sleep"]
    /\ UNCHANGED <<hgi_vars, up_vars, target_vars, history, removed_by, log,
                   in_time, job_vars>>

\* ------------------------------------------------ handle_generated_image
\* missing_fields = [field for field in required_fields if not request_data[field]]
missing_fields(req) == {f \in required_fields : f \in req.absent}

HgiReturn(h, text) ==
    /\ hgi_pc' = [hgi_pc EXCEPT ![h] = "done"]
    /\ hgi_resp' = [hgi_resp EXCEPT ![h] = text]

\* Mutant of HgiValidate: the pending check of lines 60-63 is missing.
HgiValidate_NoPendingCheck(h, body) ==
    /\ hgi_pc[h] = "idle"
    /\ \A g \in SendImageCalls : g < h => hgi_pc[g] # "idle"
    /\ hgi_req' = [hgi_req EXCEPT ![h] = body]
    /\ IF missing_fields(body) # {}
         THEN HgiReturn(h, "Missing required data")
         ELSE /\ hgi_pc' = [hgi_pc EXCEPT ![h] = "edit"]
              /\ UNCHANGED hgi_resp

\* Lines 19-66: a /send_image request arrives and is read (no shared state
\* is touched while its parts are read); validation, the pending check and
\* the lookup of the item then run without an await between them.  Calls
\* are numbered in their order of arrival.
HgiValidate(h, body) ==
    /\ hgi_pc[h] = "idle"
    /\ \A g \in SendImageCalls : g < h => hgi_pc[g] # "idle"
    /\ hgi_req' = [hgi_req EXCEPT ![h] = body]
    /\ IF missing_fields(body) # {}
         THEN HgiReturn(h, "Missing required data")
         ELSE IF body.rid \notin pending_requests
           THEN HgiReturn(h, "Unknown request")
           ELSE /\ hgi_pc' = [hgi_pc EXCEPT ![h] = "edit"]
                /\ UNCHANGED hgi_resp

\* Mutant of HgiExcept: discord.Forbidden falls into the clause of
\* discord.NotFound.
HgiExcept_ForbiddenAsNotFound(h, outcome) ==
    HgiReturn(h, CASE outcome \in {"NotFound", "Forbidden"} -> "Channel or message not found"
                   [] OTHER -> "Error updating message")

\* except discord.NotFound / discord.Forbidden / Exception (lines 172-180)
HgiExcept(h, outcome) ==
    HgiReturn(h, CASE outcome = "NotFound" -> "Channel or message not found"
                   [] outcome = "Forbidden" -> "Permission denied"
                   [] OTHER -> "Error updating message")

\* Lines 70-151: the awaits between the pending check and the update of the
\* target: fetch user, channel and member, build the embed and the view,
\* fetch channel and message, then
\* await original_message.edit(content=None, embed=embed, ...).
\* Either the collaborator applies the edit or one of the awaits raises.
\* upscale_factor is the one optional field whose absence changes the
\* control flow: it stays None and the comparison on line 86 raises once
\* the first fetches succeeded.
HgiEdit(h, outcome) ==
    /\ hgi_pc[h] = "edit"
    /\ IF outcome = "ok" /\ "upscale_factor" \notin hgi_req[h].absent
         THEN /\ hgi_pc' = [hgi_pc EXCEPT ![h] = "resume"]
              /\ message' = [message EXCEPT ![hgi_req[h].rid] =
                                [content |-> "none", embed |-> TRUE]]
              /\ delivered' = [delivered EXCEPT ![hgi_req[h].rid] = @ + 1]
              /\ UNCHANGED <<hgi_resp, timed_out>>
         ELSE /\ HgiExcept(h, IF outcome = "ok" THEN "Exception" ELSE outcome)
              /\ UNCHANGED target_vars
    /\ UNCHANGED <<pending_requests, ct_pc, hgi_req, up_vars, history,
                   removed_by, log, in_time, job_vars>>

\* Mutant of HgiRemove: the entry is left in the registry.
HgiRemove_Skips(i) ==
    UNCHANGED <<pending_requests, removed_by>>

\* Lines 165-167: if request_id in pending_requests: del pending_requests[request_id]
HgiRemove(i) ==
    /\ pending_requests' = pending_requests \ {i}
    /\ removed_by' = IF i \in pending_requests
                       THEN [removed_by EXCEPT ![i] = @ \cup {"handle_generated_image"}]
                       ELSE removed_by

\* Mutant of HgiResume: the entry is removed before the history is
\* recorded, so that a failing add_to_history leaves it removed.
HgiResume_RemovesFirst(h, outcome) ==
    /\ hgi_pc[h] = "resume"
    /\ HgiRemove(hgi_req[h].rid)
    /\ IF outcome = "ok"
         THEN /\ history' = [history EXCEPT ![hgi_req[h].rid] = @ + 1]
              /\ HgiReturn(h, "Success")
              /\ in_time' = IF ct_pc[hgi_req[h].rid] = "sleep"
                              THEN in_time \cup {hgi_req[h].rid} ELSE in_time
         ELSE /\ HgiExcept(h, "Exception")
              /\ UNCHANGED <<history, in_time>>
    /\ UNCHANGED <<hgi_req, ct_pc, up_vars, target_vars, log, job_vars>>

\* Lines 152-170: the handler resumes after the edit: add_view,
\* add_to_history, removal from the registry, 200.  When add_view or
\* add_to_history raises, line 178 answers 500 with the entry left alone.
HgiResume(h, outcome) ==
    /\ hgi_pc[h] = "resume"
    /\ IF outcome = "ok"
         THEN /\ history' = [history EXCEPT ![hgi_req[h].rid] = @ + 1]
              /\ HgiRemove(hgi_req[h].rid)
              /\ HgiReturn(h, "Success")
              /\ in_time' = IF ct_pc[hgi_req[h].rid] = "sleep"
                              THEN in_time \cup {hgi_req[h].rid} ELSE in_time
         ELSE /\ HgiExcept(h, "Exception")
              /\ UNCHANGED <<history, pending_requests, removed_by, in_time>>
    /\ UNCHANGED <<hgi_req, ct_pc, up_vars, target_vars, log, job_vars>>

\* ------------------------------------------------------- update_progress
\* The response is returned; of the request only the id it named is kept.
UpReturn(p, rid, text) ==
    /\ up_pc' = [up_pc EXCEPT ![p] = "done"]
    /\ up_resp' = [up_resp EXCEPT ![p] = text]
    /\ up_req' = [up_req EXCEPT ![p] = [NoProgress EXCEPT !.rid = rid]]

\* Mutant of UpValidate: the pending check of lines 195-196 is missing.
UpValidate_NoPendingCheck(p, body) ==
    /\ up_pc[p] = "idle"
    /\ \A q \in ProgressCalls : q < p => up_pc[q] # "idle"
    /\ IF ~body.json
         THEN UpReturn(p, NoId, "Internal server error")
         ELSE IF body.rid = NoId
           THEN UpReturn(p, NoId, "Missing request_id")
           ELSE /\ up_pc' = [up_pc EXCEPT ![p] = "edit"]
                /\ up_req' = [up_req EXCEPT ![p] = body]
                /\ UNCHANGED up_resp

\* Lines 187-198 and 202-204: an /update_progress request arrives and is
\* checked.  Calls are numbered in their order of arrival.
UpValidate(p, body) ==
    /\ up_pc[p] = "idle"
    /\ \A q \in ProgressCalls : q < p => up_pc[q] # "idle"
    /\ IF ~body.json
         THEN UpReturn(p, NoId, "Internal server error")
         ELSE IF body.rid = NoId
           THEN UpReturn(p, NoId, "Missing request_id")
           ELSE IF body.rid \notin pending_requests
             THEN UpReturn(p, body.rid, "Unknown request_id")
             ELSE /\ up_pc' = [up_pc EXCEPT ![p] = "edit"]
                  /\ up_req' = [up_req EXCEPT ![p] = body]
                  /\ UNCHANGED up_resp

\* Mutant of formatted_message: the detail of an error is not shown.
formatted_message_NoDetail(status) ==
    IF status = "generating" THEN "message+percent"
    ELSE "message"

\* Lines 221-227: the shape of the displayed text, by status.
formatted_message(status) ==
    IF status = "generating" THEN "message+percent"
    ELSE IF status = "error" THEN "message+detail"
    ELSE "message"

\* Mutant of UpEdit: a failure of the collaborator reaches the handler of
\* update_progress.
UpEdit_Propagates(p, outcome) ==
    /\ up_pc[p] = "edit"
    /\ message' = IF outcome = "ok"
                    THEN [message EXCEPT ![up_req[p].rid].content =
                             formatted_message(up_req[p].status)]
                    ELSE message
    /\ UpReturn(p, up_req[p].rid,
                IF outcome = "ok" THEN "Progress updated" ELSE "Internal server error")
    /\ UNCHANGED <<pending_requests, ct_pc, hgi_vars, delivered, timed_out,
                   history, removed_by, log, in_time, job_vars>>

\* Mutant of UpEdit: an 'error' event ends the request: its entry is
\* removed from the registry.
UpEdit_RemovesOnError(p, outcome) ==
    /\ up_pc[p] = "edit"
    /\ message' = IF outcome = "ok"
                    THEN [message EXCEPT ![up_req[p].rid].content =
                             formatted_message(up_req[p].status)]
                    ELSE message
    /\ pending_requests' = IF up_req[p].status = "error"
                             THEN pending_requests \ {up_req[p].rid}
                             ELSE pending_requests
    /\ UpReturn(p, up_req[p].rid, "Progress updated")
    /\ UNCHANGED <<ct_pc, hgi_vars, delivered, timed_out, history, removed_by,
                   log, in_time, job_vars>>

\* update_progress_message, lines 208-229, then line 201: fetch channel and
\* message, await message.edit(content=formatted_message).  A failure of the
\* collaborator is logged (lines 232-237) and the caller still answers 200.
UpEdit(p, outcome) ==
    /\ up_pc[p] = "edit"
    /\ message' = IF outcome = "ok"
                    THEN [message EXCEPT ![up_req[p].rid].content =
                             formatted_message(up_req[p].status)]
                    ELSE message
    /\ UpReturn(p, up_req[p].rid, "Progress updated")
    /\ UNCHANGED <<pending_requests, ct_pc, hgi_vars, delivered, timed_out,
                   history, removed_by, log, in_time, job_vars>>

\* --------------------------------------------------------- check_timeout
\* Lines 244-246: the sleep ends; the coroutine goes on only for an id that
\* is still pending.
CtWake(i) ==
    /\ ct_pc[i] = "sleep"
    /\ ct_pc' = [ct_pc EXCEPT ![i] = IF i \in pending_requests THEN "edit" ELSE "done"]
    /\ UNCHANGED <<pending_requests, hgi_vars, up_vars, target_vars, history,
                   removed_by, log, in_time, job_vars>>

\* Mutant of CtFinally: the finally clause does not delete the entry.
CtFinally_KeepsEntry(i) ==
    /\ ct_pc' = [ct_pc EXCEPT ![i] = "done"]
    /\ UNCHANGED <<pending_requests, removed_by>>

\* Lines 253-256: finally: del bot.pending_requests[request_id].  For an id
\* that is gone the del raises KeyError, which the outer except logs.
CtFinally(i) ==
    /\ pending_requests' = pending_requests \ {i}
    /\ ct_pc' = [ct_pc EXCEPT ![i] = "done"]
    /\ removed_by' = IF i \in pending_requests
                       THEN [removed_by EXCEPT ![i] = @ \cup {"check_timeout"}]
                       ELSE removed_by

\* logger.error of line 252 (the notification failed) and of line 256.
CtLog(i, failed) ==
    (IF failed THEN {<<"Error handling timeout", i>>} ELSE {})
    \cup (IF i \notin pending_requests THEN {<<"Error in timeout checker", i>>} ELSE {})

\* Mutant of CtEdit: the target is fetched but the edit is never sent.
CtEdit_NoNotify(i, outcome) ==
    /\ ct_pc[i] = "edit"
    /\ IF outcome = "ok"
         THEN /\ ct_pc' = [ct_pc EXCEPT ![i] = "resume"]
              /\ UNCHANGED <<pending_requests, removed_by, log>>
         ELSE /\ CtFinally(i)
              /\ log' = log \cup CtLog(i, TRUE)
    /\ UNCHANGED <<target_vars, hgi_vars, up_vars, history, in_time, job_vars>>

\* Lines 248-250: fetch channel and message, then
\* await message.edit(content="Generation timed out").  Either the
\* collaborator applies the edit, or one of the awaits raises and except and
\* finally run without another await.
CtEdit(i, outcome) ==
    /\ ct_pc[i] = "edit"
    /\ IF outcome = "ok"
         THEN /\ ct_pc' = [ct_pc EXCEPT ![i] = "resume"]
              /\ message' = [message EXCEPT ![i].content = "timeout"]
              /\ timed_out' = [timed_out EXCEPT ![i] = @ + 1]
              /\ UNCHANGED <<pending_requests, removed_by, log, delivered>>
         ELSE /\ CtFinally(i)
              /\ log' = log \cup CtLog(i, TRUE)
              /\ UNCHANGED target_vars
    /\ UNCHANGED <<hgi_vars, up_vars, history, in_time, job_vars>>

\* The coroutine resumes after the edit and runs the finally clause.
CtResume(i) ==
    /\ ct_pc[i] = "resume"
    /\ CtFinally(i)
    /\ log' = log \cup CtLog(i, FALSE)
    /\ UNCHANGED <<hgi_vars, up_vars, target_vars, history, in_time, job_vars>>

\* ------------------------------------------------- job runner (comfygen)
\* The events pushed after one more event of the given status.
Pushed(p, status) ==
    [terminal |-> IF status \in TerminalStatuses THEN p.terminal + 1 ELSE p.terminal,
     later |-> p.later \/ p.terminal > 0]

\* Mutant of send_progress_update: a push that cannot be sent raises into
\* the caller.
send_progress_update_Raises(i, status, return_to) ==
    /\ pushed' = [pushed EXCEPT ![i] = Pushed(@, status)]
    /\ \/ /\ UNCHANGED up_vars
          /\ job_push' = [job_push EXCEPT ![i] = [status |-> status, result |-> "lost"]]
          /\ job_pc' = [job_pc EXCEPT ![i] = "except_outer"]
       \/ /\ \E p \in ProgressCalls :
                /\ UpValidate(p, [rid |-> i, status |-> status, json |-> TRUE])
                /\ job_push' = [job_push EXCEPT ![i] =
                      [status |-> status,
                       result |-> IF up_pc'[p] = "done" THEN "rejected" ELSE "accepted"]]
          /\ job_pc' = [job_pc EXCEPT ![i] = return_to]

\* send_progress_update, lines 252-264: one requests.post to
\* /update_progress with a timeout of 10.  The post raises (receiver
\* unreachable, no answer in time: logger.error, line 264), or it reaches
\* the receiver, which rejects it (logger.warning, line 260) or accepts it.
\* Nothing is returned and nothing is raised: the caller goes on at
\* return_to in every case.  The runner waits at most 10 seconds for the
\* answer, so the handler of the receiver may still be running when the
\* runner takes its next step.
send_progress_update(i, status, return_to) ==
    /\ job_pc' = [job_pc EXCEPT ![i] = return_to]
    /\ pushed' = [pushed EXCEPT ![i] = Pushed(@, status)]
    /\ \/ /\ UNCHANGED up_vars
          /\ job_push' = [job_push EXCEPT ![i] = [status |-> status, result |-> "lost"]]
       \/ \E p \in ProgressCalls :
             /\ UpValidate(p, [rid |-> i, status |-> status, json |-> TRUE])
             /\ job_push' = [job_push EXCEPT ![i] =
                   [status |-> status,
                    result |-> IF up_pc'[p] = "done" THEN "rejected" ELSE "accepted"]]

\* Mutant of ws_close: the session is left as it is.
ws_close_Skips(i) ==
    UNCHANGED ws

\* Lines 442-448 and 472-474: ws.close(), in the finally clause of the try
\* around generation and delivery, and again at the end of the process for
\* a ws that is bound.
ws_close(i) ==
    ws' = [ws EXCEPT ![i] = IF @ = "open" THEN "closed" ELSE @]

\* A statement of the runner raises: control passes to the handler without
\* a push.
JobRaise(i, handler) ==
    /\ job_pc' = [job_pc EXCEPT ![i] = handler]
    /\ job_push' = [job_push EXCEPT ![i] = NoPush]
    /\ UNCHANGED <<up_vars, pushed>>

\* What the runner leaves alone: the receiver's state, but for the calls it
\* sends.
JobFrame ==
    UNCHANGED <<pending_requests, ct_pc, target_vars, history, removed_by,
                log, in_time>>

\* The seed argument: missing, the literal "None", digits, other text.
SeedArgs == {"None", "digits", "text"}

\* load_json('ratios.json'), line 233: the table of base resolutions.
ratios_config ==
    ("1:1" :> [width |-> 1024, height |-> 1024])
    @@ ("16:9" :> [width |-> 1344, height |-> 768])

\* The resolution keys a job may be started with: those of the table and
\* one the table does not know.
Resolutions == DOMAIN ratios_config \cup {"4:3"}

UpscaleFactors == {1, 2}

\* sys.argv of a runner process: argc counts the arguments after the
\* script name; parses says that the add-on list is JSON and the upscale
\* factor an integer (lines 285-286).
Argvs ==
    {a \in [argc : {9, 10, 11}, parses : BOOLEAN,
            seed : SeedArgs \cup {"absent"},
            resolution : Resolutions, upscale_factor : UpscaleFactors] :
        (a.seed = "absent") <=> (a.argc < 11)}

\* Mutant of calculate_upscaled_resolution: the height is taken from the
\* width.
calculate_upscaled_resolution_Square(res, factor) ==
    IF res \notin DOMAIN ratios_config
      THEN "ValueError"
      ELSE ToString(ratios_config[res].width * factor) \o "x"
           \o ToString(ratios_config[res].width * factor)

\* calculate_upscaled_resolution, lines 230-250: f"{final_width}x{final_height}"
\* for a key of the table, ValueError for any other key.
calculate_upscaled_resolution(res, factor) ==
    IF res \notin DOMAIN ratios_config
      THEN "ValueError"
      ELSE ToString(ratios_config[res].width * factor) \o "x"
           \o ToString(ratios_config[res].height * factor)

\* Lines 273-301: the process starts for a submitted request.  With fewer
\* than 10 arguments line 276 raises ValueError before request_id is
\* bound; the handler of line 456 then evaluates request_id (line 458),
\* which raises NameError out of the handler: the process ends with a
\* traceback and nothing is pushed.  Otherwise the arguments are bound and
\* 'starting' is pushed.
JobStart(i, argv) ==
    /\ job_pc[i] = "off"
    /\ ct_pc[i] # "unarmed"
    /\ argc' = [argc EXCEPT ![i] = argv.argc]
    /\ IF argv.argc < 10
         THEN /\ JobRaise(i, "crashed")
              /\ UNCHANGED <<seed, resolution, upscale_factor>>
         ELSE IF ~argv.parses
           THEN /\ JobRaise(i, "except_outer")
                /\ UNCHANGED <<seed, resolution, upscale_factor>>
           ELSE /\ seed' = [seed EXCEPT ![i] = argv.seed]
                /\ resolution' = [resolution EXCEPT ![i] = argv.resolution]
                /\ upscale_factor' = [upscale_factor EXCEPT ![i] = argv.upscale_factor]
                /\ send_progress_update(i, "starting", "load")
    /\ UNCHANGED <<hgi_vars, job_call, job_history, upscaled_resolution, ws,
                   select_vars, stream_vars>>
    /\ JobFrame

\* Lines 304-309: 'loading' (Loading workflow...) is pushed.
JobLoadWorkflow(i) ==
    /\ job_pc[i] = "load"
    /\ send_progress_update(i, "loading", "open")
    /\ UNCHANGED <<hgi_vars, job_call, job_history, arg_vars, select_vars,
                   stream_vars>>
    /\ JobFrame

\* Lines 310-323: open_workflow; a missing or invalid file raises, else
\* 'loading' (Initializing parameters...) is pushed.
JobOpenWorkflow(i, ok) ==
    /\ job_pc[i] = "open"
    /\ IF ok THEN send_progress_update(i, "loading", "seed")
             ELSE JobRaise(i, "except_outer")
    /\ UNCHANGED <<hgi_vars, job_call, job_history, arg_vars, select_vars,
                   stream_vars>>
    /\ JobFrame

\* Lines 324-351.  seed = int(seed) if seed != "None" else
\* generate_random_seed(): a missing seed is None, which is not "None", and
\* int(None) raises TypeError; text that is no integer raises ValueError.
\* Then update_workflow, and calculate_upscaled_resolution, whose
\* ValueError is replaced by "Unknown" (lines 341-343); 'loading'
\* (Connecting to ComfyUI...) is pushed.
JobSeed(i) ==
    /\ job_pc[i] = "seed"
    /\ IF seed[i] \in {"absent", "text"}
         THEN /\ JobRaise(i, "except_outer")
              /\ UNCHANGED <<seed, upscaled_resolution>>
         ELSE /\ seed' = [seed EXCEPT ![i] = "int"]
              /\ upscaled_resolution' = [upscaled_resolution EXCEPT ![i] =
                    IF calculate_upscaled_resolution(resolution[i], upscale_factor[i])
                          = "ValueError"
                      THEN "Unknown"
                      ELSE calculate_upscaled_resolution(resolution[i], upscale_factor[i])]
              /\ send_progress_update(i, "loading", "connect")
    /\ UNCHANGED <<hgi_vars, job_call, job_history, argc, resolution, ws,
                   upscale_factor, select_vars, stream_vars>>
    /\ JobFrame

\* Lines 353-370: the streaming session is opened and bound to ws (a
\* failure raises to the outer handlers); clear_cache (a failure raises to the handler of line
\* 434); 'loading' (Loading models...) is pushed and get_images is entered.
JobConnect(i, outcome) ==
    /\ job_pc[i] = "connect"
    /\ CASE outcome = "ok" -> send_progress_update(i, "loading", "queue")
         [] outcome = "no connection" -> JobRaise(i, "except_outer")
         [] OTHER -> JobRaise(i, "except_inner")
    /\ ws' = [ws EXCEPT ![i] = IF outcome = "no connection" THEN @ ELSE "open"]
    /\ UNCHANGED <<hgi_vars, job_call, job_history, argv_vars, select_vars,
                   stream_vars>>
    /\ JobFrame

\* Mutant of JobQueuePrompt: the answer is not checked for its prompt id.
JobQueuePrompt_NoCheck(i, response) ==
    /\ job_pc[i] = "queue"
    /\ prompt_response' = [prompt_response EXCEPT ![i] = response]
    /\ JobRaise(i, "generate")
    /\ UNCHANGED <<hgi_vars, job_call, job_history, arg_vars, select_vars,
                   last_milestone, emitted, backend>>
    /\ JobFrame

\* get_images, lines 124-128 and 222-228: queue_prompt returned.  An answer
\* without 'prompt_id' raises ValueError inside the try, whose handler
\* pushes 'error' and raises again.
JobQueuePrompt(i, response) ==
    /\ job_pc[i] = "queue"
    /\ prompt_response' = [prompt_response EXCEPT ![i] = response]
    /\ IF "prompt_id" \in DOMAIN response
         THEN JobRaise(i, "generate")
         ELSE send_progress_update(i, "error", "except_inner")
    /\ UNCHANGED <<hgi_vars, job_call, job_history, arg_vars, select_vars,
                   last_milestone, emitted, backend>>
    /\ JobFrame

\* Mutant of execution_complete: any prompt id ends the loop.
execution_complete_AnyPrompt(data, prompt_id) ==
    data.node = None

\* Line 177: if data['node'] is None and data['prompt_id'] == prompt_id
execution_complete(data, prompt_id) ==
    data.node = None /\ data.prompt_id = prompt_id

\* get_images, lines 145-178 and 195-199: a frame of the backend that is no
\* progress report.  execution_start, an 'executing' message that names a
\* loader node and execution_cached are turned into an event; an
\* 'executing' message then ends the loop when it is the completion
\* message of this prompt; any other frame is read and dropped.
JobStream(i, out) ==
    /\ job_pc[i] = "generate"
    /\ CASE out.type = "execution_start" ->
               send_progress_update(i, "starting", "generate")
         [] out.type = "executing" ->
               LET next == IF execution_complete(out, prompt_response[i].prompt_id)
                             THEN "streamed" ELSE "generate"
               IN  IF out.loader THEN send_progress_update(i, "loading", next)
                                 ELSE JobRaise(i, next)
         [] out.type = "execution_cached" ->
               send_progress_update(i, "cached", "generate")
         [] OTHER -> JobRaise(i, "generate")
    /\ UNCHANGED <<hgi_vars, job_call, job_history, arg_vars, select_vars,
                   stream_vars>>
    /\ JobFrame

\* Lines 204-208: after the loop 'complete' is pushed, before the images
\* are fetched.
JobStreamDone(i) ==
    /\ job_pc[i] = "streamed"
    /\ send_progress_update(i, "complete", "fetch")
    /\ UNCHANGED <<hgi_vars, job_call, job_history, arg_vars, select_vars,
                   stream_vars>>
    /\ JobFrame

\* get_images, lines 222-228: an exception while queueing, streaming or
\* fetching pushes 'error' and is raised again.
JobGetImagesRaises(i) ==
    /\ job_pc[i] \in {"queue", "generate", "fetch"}
    /\ send_progress_update(i, "error", "except_inner")
    /\ UNCHANGED <<hgi_vars, job_call, job_history, arg_vars, select_vars,
                   stream_vars>>
    /\ JobFrame

\* Lines 434-448: the handler around generation and delivery pushes 'error'
\* and raises again, through the finally clause that closes the session.
JobExceptInner(i) ==
    /\ job_pc[i] = "except_inner"
    /\ send_progress_update(i, "error", "except_outer")
    /\ ws_close(i)
    /\ UNCHANGED <<hgi_vars, job_call, job_history, argv_vars, select_vars,
                   stream_vars>>
    /\ JobFrame

\* Lines 456-474: the outermost handlers push 'error'; the process ends,
\* closing a session that is bound and still open.
JobExceptOuter(i) ==
    /\ job_pc[i] = "except_outer"
    /\ send_progress_update(i, "error", "failed")
    /\ ws_close(i)
    /\ UNCHANGED <<hgi_vars, job_call, job_history, argv_vars, select_vars,
                   stream_vars>>
    /\ JobFrame

\* filename.startswith(prefix), on names split into pieces.
StartsWith(filename, prefix) ==
    /\ Len(filename) >= Len(prefix)
    /\ SubSeq(filename, 1, Len(prefix)) = prefix

temp_prefix == <<"ComfyUI_", "temp">>

\* Mutant of select_items: the items are scanned first to last.
RECURSIVE select_items_Forward(_, _)
select_items_Forward(image_data_list, k) ==
    IF k = 0 THEN None
    ELSE IF ~StartsWith(image_data_list[Len(image_data_list) + 1 - k][2], temp_prefix)
      THEN image_data_list[Len(image_data_list) + 1 - k]
      ELSE select_items_Forward(image_data_list, k - 1)

\* Lines 377-381: for image_data, filename in reversed(image_data_list):
\* the first item whose filename does not start with 'ComfyUI_temp'.
\* k is the number of items still to scan.
RECURSIVE select_items(_, _)
select_items(image_data_list, k) ==
    IF k = 0 THEN None
    ELSE IF ~StartsWith(image_data_list[k][2], temp_prefix)
      THEN image_data_list[k]
      ELSE select_items(image_data_list, k - 1)

\* Lines 374-383: for node_id, image_data_list in reversed(images.items()),
\* ending at the first node that yields an item.  n is the number of nodes
\* still to scan.
RECURSIVE select_final_image(_, _)
select_final_image(imgs, n) ==
    IF n = 0 THEN None
    ELSE IF select_items(imgs[n], Len(imgs[n])) # None
      THEN select_items(imgs[n], Len(imgs[n]))
      ELSE select_final_image(imgs, n - 1)

\* get_images, lines 211-220, then lines 373-385: the outputs of the job
\* are fetched (one list of (image_data, filename) per node that has
\* images) and the final image is selected.
JobSelect(i, imgs) ==
    /\ job_pc[i] = "fetch"
    /\ images' = [images EXCEPT ![i] = imgs]
    /\ final_image' = [final_image EXCEPT ![i] = select_final_image(imgs, Len(imgs))]
    /\ JobRaise(i, IF final_image'[i] # None THEN "selected" ELSE "no_final")
    /\ UNCHANGED <<hgi_vars, job_call, job_history, arg_vars, stream_vars>>
    /\ JobFrame

\* Lines 425-432: no final image: 'error' is pushed and the process ends.
JobNoFinal(i) ==
    /\ job_pc[i] = "no_final"
    /\ send_progress_update(i, "error", "failed")
    /\ images' = [images EXCEPT ![i] = <<>>]
    /\ ws_close(i)
    /\ UNCHANGED <<hgi_vars, job_call, job_history, argv_vars, final_image,
                   stream_vars>>
    /\ JobFrame

\* Lines 385-406: files and data are built from final_image and
\* 'finalizing' is pushed.  Neither images nor final_image is read again.
JobFinalizing(i) ==
    /\ job_pc[i] = "selected"
    /\ send_progress_update(i, "finalizing", "post")
    /\ images' = [images EXCEPT ![i] = <<>>]
    /\ final_image' = [final_image EXCEPT ![i] = None]
    /\ UNCHANGED <<hgi_vars, job_call, job_history, arg_vars, stream_vars>>
    /\ JobFrame

\* The progress messages remembered after one more message.
Received(b, value, max, progress, milestone) ==
    IF /\ b.monotonic
       /\ IF b = NoMessages THEN value = 0 ELSE max = b.max /\ value >= b.value
      THEN [max |-> max, value |-> value, progress |-> progress,
            monotonic |-> TRUE, visited |-> b.visited \cup {milestone}]
      ELSE NotMonotonic

\* A Python float (IEEE 754 binary64) that is not negative: the integer
\* a * 2^36 + b * 2^18 + c, of at most 53 bits, divided by 2^sh.  It is
\* kept in three limbs because the arithmetic below must be exact.
Limb == 2^18

\* n / d brought into [1, 2): n is doubled (sh grows) or d is doubled (sh
\* shrinks) until d <= n < 2 * d.
RECURSIVE float_normalize(_, _, _)
float_normalize(n, d, sh) ==
    IF n < d THEN float_normalize(2 * n, d, sh + 1)
    ELSE IF n >= 2 * d THEN float_normalize(n, 2 * d, sh - 1)
    ELSE <<n, d, sh>>

\* Line 184, current_step / max_steps: true division of two ints gives the
\* float nearest to the quotient (ties to even): 53 bits of the quotient by
\* long division, rounded on the remainder.
float_div(current_step, max_steps) ==
    IF current_step = 0 THEN [a |-> 0, b |-> 0, c |-> 0, sh |-> 52]
    ELSE
    LET nd == float_normalize(current_step, max_steps, 52)
        d == nd[2]
        a == (nd[1] * 2^16) \div d
        r1 == (nd[1] * 2^16) % d
        b == (r1 * Limb) \div d
        r2 == (r1 * Limb) % d
        c == (r2 * Limb) \div d
        r3 == (r2 * Limb) % d
        up == 2 * r3 > d \/ (2 * r3 = d /\ c % 2 = 1)
        c1 == IF up THEN c + 1 ELSE c
        b1 == b + (c1 \div Limb)
        a1 == a + (b1 \div Limb)
    IN  IF a1 = 2^17
          THEN [a |-> 2^16, b |-> 0, c |-> 0, sh |-> nd[3] - 1]
          ELSE [a |-> a1, b |-> b1 % Limb, c |-> c1 % Limb, sh |-> nd[3]]

\* Line 184, (...) * 100: the product of a float and 100 is the float
\* nearest to it (ties to even): the exact product has up to 60 bits, of
\* which the lowest 6 or 7 are rounded away.
float_mul_100(x) ==
    LET lo == x.c * 100
        c1 == lo % Limb
        mid == x.b * 100 + (lo \div Limb)
        b1 == mid % Limb
        hi == x.a * 100 + (mid \div Limb)
        k == IF hi < 2^23 THEN 6 ELSE 7
        rem == c1 % 2^k
        up == rem > 2^(k - 1) \/ (rem = 2^(k - 1) /\ (c1 \div 2^k) % 2 = 1)
        c2 == (c1 - rem) + (IF up THEN 2^k ELSE 0)
        b2 == b1 + (c2 \div Limb)
    IN  [a |-> hi + (b2 \div Limb), b |-> b2 % Limb, c |-> c2 % Limb, sh |-> x.sh]

\* Line 184, int(...): the float is truncated.  The floats of the model are
\* below 2^24, so that the integer part lies in the highest limb.
float_int(x) == x.a \div 2^(x.sh - 36)

\* Line 184: progress = int((current_step / max_steps) * 100)
progress_percent(current_step, max_steps) ==
    float_int(float_mul_100(float_div(current_step, max_steps)))

\* progress_percent for the step counts of the model, computed once.
progress_table ==
    [max_steps \in 1..MaxPercentSteps |->
        [current_step \in 0..MaxPercentSteps |->
            progress_percent(current_step, max_steps)]]

\* Mutant of new_milestone: a milestone that was reached before counts
\* again.
new_milestone_Repeats(current_milestone, last) ==
    current_milestone >= last /\ current_milestone < 100

\* Mutant of new_milestone: the test against 100 is missing.
new_milestone_UpTo100(current_milestone, last) ==
    current_milestone > last

\* Line 187: if current_milestone > last_milestone and current_milestone < 100
new_milestone(current_milestone, last) ==
    current_milestone > last /\ current_milestone < 100

\* get_images, lines 180-193: a progress message of the backend.
\* max_steps = 0 raises ZeroDivisionError, handled at lines 222-228.
JobProgress(i, value, max) ==
    /\ job_pc[i] = "generate"
    /\ IF max = 0
         THEN /\ send_progress_update(i, "error", "except_inner")
              /\ UNCHANGED stream_vars
         ELSE LET progress == progress_table[max][value]
                  current_milestone == (progress \div 10) * 10
              IN  /\ IF new_milestone(current_milestone, last_milestone[i])
                       THEN /\ send_progress_update(i, "generating", "generate")
                            /\ emitted' = [emitted EXCEPT ![i] =
                                              Append(@, (progress \div 10) * 10)]
                            /\ last_milestone' = [last_milestone EXCEPT ![i] =
                                                     current_milestone]
                       ELSE /\ JobRaise(i, "generate")
                            /\ UNCHANGED <<last_milestone, emitted>>
                  /\ UNCHANGED prompt_response
                  /\ backend' = [backend EXCEPT ![i] =
                                    Received(@, value, max, progress,
                                             current_milestone)]
    /\ UNCHANGED <<hgi_vars, job_call, job_history, arg_vars, select_vars>>
    /\ JobFrame

\* Lines 385-412: requests.post to /send_image with every field set.
JobPost(i) ==
    /\ job_pc[i] = "post"
    /\ \E h \in SendImageCalls :
          /\ HgiValidate(h, [rid |-> i, absent |-> {}])
          /\ job_call' = [job_call EXCEPT ![i] = h]
    /\ JobRaise(i, "posted")
    /\ UNCHANGED <<job_history, arg_vars, select_vars, stream_vars>>
    /\ JobFrame

\* Lines 413-424: the response arrived; whatever its status, 'complete' is
\* pushed and the runner records the image in the history.
JobPostReturns(i) ==
    /\ job_pc[i] = "posted"
    /\ hgi_pc[job_call[i]] = "done"
    /\ send_progress_update(i, "complete", "delivered")
    /\ job_history' = [job_history EXCEPT ![i] = @ + 1]
    /\ ws_close(i)
    /\ UNCHANGED <<hgi_vars, job_call, argv_vars, select_vars, stream_vars>>
    /\ JobFrame

\* Line 409, timeout=30: no response in time (or no connection) raises.
JobPostRaises(i) ==
    /\ job_pc[i] \in {"post", "posted"}
    /\ JobRaise(i, "except_inner")
    /\ UNCHANGED <<hgi_vars, job_call, job_history, arg_vars, select_vars,
                   stream_vars>>
    /\ JobFrame

\* Every list of at most max elements of S.
ListsOf(S, max) == UNION {[1..k -> S] : k \in 0..max}

\* Filenames of output artifacts, in pieces: an intermediate one, a final
\* one that shares the start of the intermediate prefix, another final one.
Filenames ==
    {<<"ComfyUI_", "temp", "_00001_.png">>, <<"ComfyUI_", "00001_.png">>,
     <<"flux", ".png">>}

\* The result of get_images for the filenames of each node: the item k of
\* node n carries the bytes <<n, k>>.
ImagesOf(names) ==
    [n \in 1..Len(names) |-> [k \in 1..Len(names[n]) |-> <<<<n, k>>, names[n][k]>>]]

\* Up to MaxNodes nodes with up to MaxItems images each.
Outputs ==
    {ImagesOf(names) : names \in ListsOf(ListsOf(Filenames, MaxItems), MaxNodes)}

\* The outputs and the progress messages of a job where the runner and
\* the receiver interleave: no output, an intermediate one, a final one;
\* half way and done.
JobOutputs ==
    {ImagesOf(names) : names \in {<<>>, <<<<<<"ComfyUI_", "temp", "_00001_.png">>>>>>,
                                 <<<<<<"flux", ".png">>>>>>}}
JobMessages == {<<1, 2>>, <<2, 2>>}

JobRunner ==
    \/ \E i \in Ids, argv \in Argvs : JobStart(i, argv)
    \/ \E i \in Ids : JobLoadWorkflow(i)
    \/ \E i \in Ids, ok \in BOOLEAN : JobOpenWorkflow(i, ok)
    \/ \E i \in Ids : JobSeed(i)
    \/ \E i \in Ids, o \in {"ok", "no connection", "no cache reset"} : JobConnect(i, o)
    \/ \E i \in Ids, r \in PromptResponses : JobQueuePrompt(i, r)
    \/ \E i \in Ids, out \in StreamMessages : JobStream(i, out)
    \/ \E i \in Ids : JobStreamDone(i)
    \/ \E i \in Ids : JobGetImagesRaises(i)
    \/ \E i \in Ids : JobExceptInner(i)
    \/ \E i \in Ids : JobExceptOuter(i)
    \/ \E i \in Ids, m \in JobMessages : JobProgress(i, m[1], m[2])
    \/ \E i \in Ids, imgs \in JobOutputs : JobSelect(i, imgs)
    \/ \E i \in Ids : JobNoFinal(i)
    \/ \E i \in Ids : JobFinalizing(i)
    \/ \E i \in Ids : JobPost(i)
    \/ \E i \in Ids : JobPostReturns(i)
    \/ \E i \in Ids : JobPostRaises(i)

\* ---------------------------------------------------------- specification
Receiver ==
    \/ \E i \in Ids : Submit(i)
    \/ \E h \in SendImageCalls, o \in Outcomes : HgiEdit(h, o)
    \/ \E h \in SendImageCalls, o \in {"ok", "Exception"} : HgiResume(h, o)
    \/ \E p \in ProgressCalls, o \in Outcomes : UpEdit(p, o)
    \/ \E i \in Ids : CtWake(i)
    \/ \E i \in Ids, o \in Outcomes : CtEdit(i, o)
    \/ \E i \in Ids : CtResume(i)

\* The HTTP boundary is open: any client may post any body at any time.
ClientSendImage(h, body) ==
    /\ HgiValidate(h, body)
    /\ UNCHANGED <<pending_requests, ct_pc, up_vars, target_vars, history,
                   removed_by, log, in_time, job_vars>>

ClientUpdateProgress(p, body) ==
    /\ UpValidate(p, body)
    /\ UNCHANGED <<pending_requests, ct_pc, hgi_vars, target_vars, history,
                   removed_by, log, in_time, job_vars>>

Clients ==
    \/ \E h \in SendImageCalls, b \in ClientBodies : ClientSendImage(h, b)
    \/ \E p \in ProgressCalls, b \in ClientProgress : ClientUpdateProgress(p, b)

Next == Receiver \/ Clients

Spec == Init /\ [][Next]_vars

\* /send_image alone, with every body of SendImageBodies.
SendImageNext ==
    \/ \E i \in Ids : Submit(i)
    \/ \E h \in SendImageCalls, b \in SendImageBodies : ClientSendImage(h, b)
    \/ \E h \in SendImageCalls, o \in Outcomes : HgiEdit(h, o)
    \/ \E h \in SendImageCalls, o \in {"ok", "Exception"} : HgiResume(h, o)
    \/ \E i \in Ids : CtWake(i)
    \/ \E i \in Ids, o \in Outcomes : CtEdit(i, o)
    \/ \E i \in Ids : CtResume(i)

SendImageSpec == Init /\ [][SendImageNext]_vars

\* /update_progress with every body of ProgressBodies, beside check_timeout
\* and one /send_image call that carries every field.
ProgressNext ==
    \/ Receiver
    \/ \E p \in ProgressCalls, b \in ProgressBodies : ClientUpdateProgress(p, b)
    \/ \E h \in SendImageCalls, i \in Ids :
          /\ \A g \in SendImageCalls : hgi_pc[g] = "idle"
          /\ ClientSendImage(h, [rid |-> i, absent |-> {}])

ProgressSpec == Init /\ [][ProgressNext]_vars

\* The receiver with the job runner of the request as its only client.
JobNext == Receiver \/ JobRunner

JobSpec == Init /\ [][JobNext]_vars

\* A job that has come to the streaming loop of get_images with a complete
\* argument list, while its request is pending and none of its pushes has
\* reached the receiver.
Generating ==
    /\ pending_requests = Ids
    /\ ct_pc = [i \in Ids |-> "sleep"]
    /\ hgi_pc = [h \in SendImageCalls |-> "idle"]
    /\ hgi_req = [h \in SendImageCalls |-> NoBody]
    /\ hgi_resp = [h \in SendImageCalls |-> "none"]
    /\ up_pc = [p \in ProgressCalls |-> "idle"]
    /\ up_req = [p \in ProgressCalls |-> NoProgress]
    /\ up_resp = [p \in ProgressCalls |-> "none"]
    /\ message = [i \in Ids |-> InitialMessage]
    /\ history = [i \in Ids |-> 0]
    /\ delivered = [i \in Ids |-> 0]
    /\ timed_out = [i \in Ids |-> 0]
    /\ removed_by = [i \in Ids |-> {}]
    /\ log = {}
    /\ in_time = {}
    /\ job_pc = [i \in Ids |-> "generate"]
    /\ job_call = [i \in Ids |-> 0]
    /\ job_history = [i \in Ids |-> 0]
    /\ job_push = [i \in Ids |-> NoPush]
    /\ pushed = [i \in Ids |-> NoEvents]
    /\ argc = [i \in Ids |-> 11]
    /\ seed = [i \in Ids |-> "int"]
    /\ resolution = [i \in Ids |-> "1:1"]
    /\ upscale_factor = [i \in Ids |-> 1]
    /\ upscaled_resolution = [i \in Ids |-> "1024x1024"]
    /\ images = [i \in Ids |-> <<>>]
    /\ final_image = [i \in Ids |-> None]
    /\ last_milestone = [i \in Ids |-> 0]
    /\ emitted = [i \in Ids |-> <<>>]
    /\ backend = [i \in Ids |-> NoMessages]
    /\ prompt_response = [i \in Ids |-> [prompt_id |-> "p1"]]
    /\ ws = [i \in Ids |-> "open"]

\* The streaming loop of get_images under every progress message with
\* value and max up to MaxSteps.
StreamNext ==
    \E i \in Ids, value \in 0..MaxSteps, max \in 0..MaxSteps :
        JobProgress(i, value, max)

StreamSpec == Generating /\ [][StreamNext]_vars

\* The end of the job, from the frames that end the streaming loop on,
\* under every output of up to MaxNodes nodes with up to MaxItems images.
SelectNext ==
    \/ \E i \in Ids, out \in StreamMessages : JobStream(i, out)
    \/ \E i \in Ids : JobStreamDone(i)
    \/ \E i \in Ids : /\ job_pc[i] = "fetch"
                        /\ \E imgs \in Outputs : JobSelect(i, imgs)
    \/ \E i \in Ids : JobNoFinal(i)
    \/ \E i \in Ids : JobFinalizing(i)
    \/ \E i \in Ids : JobPost(i)

SelectSpec == Generating /\ [][SelectNext]_vars

\* The percentage of a progress message, for every message with
\* 0 <= value <= max and 0 < max <= MaxPercentSteps: the message with value
\* 0 that opens the progress of a job, and the message that follows it.
PercentNext ==
    \E i \in Ids : /\ backend[i].monotonic
                    /\ backend[i].value = 0
                    /\ \E max \in 1..MaxPercentSteps : \E value \in 0..max :
                          JobProgress(i, value, max)

PercentSpec == Generating /\ [][PercentNext]_vars

\* asyncio runs every coroutine that can run, the sleep of check_timeout
\* ends, and every await on the collaborator returns or raises.
FairSpec ==
    /\ Spec
    /\ \A i \in Ids : /\ WF_vars(CtWake(i))
                      /\ WF_vars(\E o \in Outcomes : CtEdit(i, o))
                      /\ WF_vars(CtResume(i))

\* ------------------------------------------------------------ properties
\* A callback (result or progress) that named request i has arrived.
CallbackArrived(i) ==
    \/ \E h \in SendImageCalls : hgi_pc[h] # "idle" /\ hgi_req[h].rid = i
    \/ \E p \in ProgressCalls : up_pc[p] # "idle" /\ up_req[p].rid = i

\* check_timeout tried to remove i: it removed it, or its del raised.
TimeoutTriedRemoval(i) ==
    \/ "check_timeout" \in removed_by[i]
    \/ <<"Error in timeout checker", i>> \in log

\* What a rejected /send_image call must leave alone.
RejectedUntouched ==
    UNCHANGED <<pending_requests, message, delivered, timed_out, history>>

\* C1: for every request id, a result delivery and a timeout notification
\* are never both produced (the "never both" half of "exactly one terminal
\* notification per request id").
C1_NeverBothTerminal ==
    \A i \in Ids : delivered[i] + timed_out[i] <= 1

\* C2: it never happens that both handle_generated_image and check_timeout
\* perform or attempt the removal of the same request id.
C2_RemovedByOne ==
    \A i \in Ids :
        ~("handle_generated_image" \in removed_by[i] /\ TimeoutTriedRemoval(i))

\* C3: for every request id at most one /send_image call delivers the final
\* notification, records history and answers 200.
C3_DeliveredOnce ==
    \A i \in Ids :
        /\ delivered[i] <= 1
        /\ history[i] <= 1
        /\ Cardinality({h \in SendImageCalls :
                           hgi_resp[h] = "Success" /\ hgi_req[h].rid = i}) <= 1

\* C4: once a /send_image call for an id has answered 200 while the timer
\* of the id was still asleep, the id is not in the registry and no timeout
\* notification is ever issued for it.
C4_NoTimeoutAfterDelivery ==
    \A i \in in_time : i \notin pending_requests /\ timed_out[i] = 0

C4_Witness ==
    \E i \in in_time : ct_pc[i] = "done"

\* C5 as stated: when no callback ever arrived for an armed request, then
\* after check_timeout has run the id is not in the registry and exactly
\* one timeout notification was delivered.
C5_ExactlyOneTimeout ==
    \A i \in Ids :
        (ct_pc[i] = "done" /\ ~CallbackArrived(i))
            => (i \notin pending_requests /\ timed_out[i] = 1)

\* C5 amended: when no callback ever arrived for an armed request, then
\* after check_timeout has run the id is not in the registry, and exactly
\* one timeout notification was delivered unless fetching or editing the
\* target failed, in which case none was and the failure is logged.
C5_TimeoutUnlessTargetFails ==
    \A i \in Ids :
        (ct_pc[i] = "done" /\ ~CallbackArrived(i))
            => /\ i \notin pending_requests
               /\ timed_out[i] =
                     (IF <<"Error handling timeout", i>> \in log THEN 0 ELSE 1)

C5_Witness ==
    \E i \in Ids :
        ct_pc[i] = "done" /\ ~CallbackArrived(i) /\ timed_out[i] = 1

\* C6: every armed request id is eventually absent from the registry, with
\* its timeout coroutine finished, whatever the callbacks and the
\* collaborator do.
C6_EventuallyNotPending ==
    \A i \in Ids :
        (ct_pc[i] = "sleep") ~> (ct_pc[i] = "done" /\ i \notin pending_requests)

C6_Witness ==
    \E i \in Ids :
        /\ ct_pc[i] = "done"
        /\ <<"Error handling timeout", i>> \in log
        /\ \E h \in SendImageCalls :
              /\ hgi_req[h].rid = i
              /\ hgi_resp[h] \in {"Channel or message not found", "Permission denied"}

\* C7: a /send_image call with all required fields that arrives after
\* check_timeout removed the entry of its id answers 404 "Unknown request"
\* and changes neither the registry nor the target nor the history.
C7_LateResultDiscarded ==
    [][\A h \in SendImageCalls :
          (/\ hgi_pc[h] = "idle"
           /\ hgi_pc'[h] # "idle"
           /\ hgi_req'[h].absent = {}
           /\ "check_timeout" \in removed_by[hgi_req'[h].rid])
              => /\ hgi_pc'[h] = "done"
                 /\ hgi_resp'[h] = "Unknown request"
                 /\ StatusOf(hgi_resp'[h]) = 404
                 /\ RejectedUntouched]_vars

C7_Witness ==
    \E h \in SendImageCalls :
        /\ hgi_resp[h] = "Unknown request"
        /\ hgi_req[h].absent = {}
        /\ "check_timeout" \in removed_by[hgi_req[h].rid]

\* C8: a /send_image call whose delivery to the collaborator failed with
\* not-found or forbidden has still removed the entry of its request.
C8_CleanupDespiteFailure ==
    \A h \in SendImageCalls :
        hgi_resp[h] \in {"Channel or message not found", "Permission denied"}
            => hgi_req[h].rid \notin pending_requests

\* C9: when the job runner has ended in failure it has pushed a result to
\* /send_image and the entry of its request is gone before the timeout
\* coroutine wakes.
C9_FailedJobCleansRegistry ==
    \A i \in Ids :
        (job_pc[i] = "failed" /\ ct_pc[i] = "sleep")
            => /\ job_call[i] # 0
               /\ i \notin pending_requests

\* The fields C10 names.
C10_Fields ==
    {"request_id", "user_id", "channel_id", "interaction_id",
     "original_message_id", "prompt", "resolution", "image_data"}

\* C10: a /send_image call with one of the required fields missing or
\* empty answers 400 and changes neither the registry nor the target nor
\* the history.
C10_InvalidRequestRejected ==
    [][\A h \in SendImageCalls :
          (/\ hgi_pc[h] = "idle"
           /\ hgi_pc'[h] # "idle"
           /\ hgi_req'[h].absent \cap C10_Fields # {})
              => /\ hgi_pc'[h] = "done"
                 /\ StatusOf(hgi_resp'[h]) = 400
                 /\ RejectedUntouched]_vars

C10_Witness ==
    \E h \in SendImageCalls :
        /\ hgi_resp[h] = "Missing required data"
        /\ hgi_req[h].absent = {"image_data"}
        /\ hgi_req[h].rid \in pending_requests

\* C11: an /update_progress call, and a /send_image call carrying every
\* required field, that names a request id the registry does not hold
\* answers 404 at once and changes neither the registry nor the target nor
\* the history.
C11_UnknownIdRejected ==
    [][/\ \A h \in SendImageCalls :
             (/\ hgi_pc[h] = "idle"
              /\ hgi_pc'[h] # "idle"
              /\ hgi_req'[h].absent \cap C10_Fields = {}
              /\ hgi_req'[h].rid \notin pending_requests)
                 => /\ hgi_pc'[h] = "done"
                    /\ StatusOf(hgi_resp'[h]) = 404
                    /\ RejectedUntouched
       /\ \A p \in ProgressCalls :
             (/\ up_pc[p] = "idle"
              /\ up_pc'[p] # "idle"
              /\ up_req'[p].rid # NoId
              /\ up_req'[p].rid \notin pending_requests)
                 => /\ up_pc'[p] = "done"
                    /\ StatusOf(up_resp'[p]) = 404
                    /\ RejectedUntouched]_vars

C11_Witness ==
    /\ \E h \in SendImageCalls : hgi_resp[h] = "Unknown request"
    /\ \E p \in ProgressCalls : up_resp[p] = "Unknown request_id"

\* C14: no removal site raises for an id that is already gone: the del of
\* check_timeout never fails with KeyError.
C14_RemovalNeverRaises ==
    \A i \in Ids : <<"Error in timeout checker", i>> \notin log

\* C20: a /send_image call for a pending id whose target is not found
\* answers 404, one whose permission is denied answers 403, and a call
\* that answers 403 or 404 records no history entry.
C20_TargetInaccessible ==
    [][\A h \in SendImageCalls :
          (hgi_pc[h] = "edit" /\ hgi_pc'[h] = "done")
             => /\ HgiEdit(h, "NotFound") => StatusOf(hgi_resp'[h]) = 404
                /\ HgiEdit(h, "Forbidden") => StatusOf(hgi_resp'[h]) = 403
                /\ StatusOf(hgi_resp'[h]) \in {403, 404} => history' = history]_vars

C20_Witness ==
    /\ \E h \in SendImageCalls : hgi_resp[h] = "Permission denied"
    /\ \E h \in SendImageCalls : hgi_resp[h] = "Channel or message not found"
    /\ \A i \in Ids : history[i] = 0

\* C12: whatever progress messages the backend sends, the milestones of
\* the 'generating' events pushed by get_images are strictly increasing
\* and all below 100.
C12_MilestonesIncrease ==
    \A i \in Ids : \A k \in 1..Len(emitted[i]) :
        /\ emitted[i][k] < 100
        /\ k > 1 => emitted[i][k - 1] < emitted[i][k]

C12_Witness ==
    \E i \in Ids : ~backend[i].monotonic /\ Len(emitted[i]) >= 3

\* The multiples of 10 from 10 to 90.
Milestones == {10 * k : k \in 1..9}

\* The backend's progress ran from 0 to max without going back.
RanToMax(i) ==
    /\ backend[i].monotonic
    /\ backend[i].max > 0
    /\ backend[i].value = backend[i].max

\* C13 as stated: after monotonic progress from 0 to max, exactly the
\* milestones 10, 20, ..., 90 were each emitted once, whatever the steps.
C13_EveryMilestone ==
    \A i \in Ids :
        RanToMax(i) => emitted[i] = [k \in 1..9 |-> 10 * k]

\* C13 amended: after monotonic progress from 0 to max, exactly those of
\* the milestones 10, 20, ..., 90 that the percentage of some progress
\* message reached were each emitted once, in increasing order; they are
\* all of 10, 20, ..., 90 when the messages reached every one of them.
C13_EveryMilestoneReached ==
    \A i \in Ids :
        RanToMax(i) =>
            /\ {emitted[i][k] : k \in 1..Len(emitted[i])}
                  = backend[i].visited \cap Milestones
            /\ Len(emitted[i]) = Cardinality(backend[i].visited \cap Milestones)
            /\ Milestones \subseteq backend[i].visited
                  => emitted[i] = [k \in 1..9 |-> 10 * k]

C13_Witness ==
    \E i \in Ids : RanToMax(i) /\ emitted[i] = [k \in 1..9 |-> 10 * k]

\* Where the runner goes on after a push of status made at position pc
\* (after the 'loading' push for an 'executing' message the loop goes on or
\* ends, as the message says).
C15_GoesOn(pc, status) ==
    CASE pc = "off" -> {"load"}
      [] pc = "load" -> {"open"}
      [] pc = "open" -> {"seed"}
      [] pc = "seed" -> {"connect"}
      [] pc = "connect" -> {"queue"}
      [] pc = "queue" -> {"except_inner"}
      [] pc = "generate" /\ status = "error" -> {"except_inner"}
      [] pc = "generate" /\ status = "loading" -> {"generate", "streamed"}
      [] pc = "generate" -> {"generate"}
      [] pc = "streamed" -> {"fetch"}
      [] pc = "fetch" -> {"except_inner"}
      [] pc = "selected" -> {"post"}
      [] pc = "posted" -> {"delivered"}
      [] pc = "no_final" -> {"failed"}
      [] pc = "except_inner" -> {"except_outer"}
      [] pc = "except_outer" -> {"failed"}
      [] OTHER -> {}

\* C15: a step of the runner whose push was lost or rejected leaves the
\* runner where the statement after the push is, as an accepted push does;
\* a lost push reaches no handler of the receiver, and no step sends the
\* same push twice.
C15_FailedPushGoesOn ==
    [][\A i \in Ids :
          /\ (/\ job_push'[i].result \in {"lost", "rejected"}
              /\ <<job_pc[i], job_push[i]>> # <<job_pc'[i], job_push'[i]>>)
                => /\ job_pc'[i] \in C15_GoesOn(job_pc[i], job_push'[i].status)
                   /\ job_push'[i].result = "lost" => UNCHANGED up_vars
          /\ Cardinality({p \in ProgressCalls :
                             up_pc[p] = "idle" /\ up_pc'[p] # "idle"}) <= 1]_vars

C15_Witness ==
    \E i \in Ids :
        /\ job_pc[i] = "post"
        /\ job_push[i] = [status |-> "finalizing", result |-> "rejected"]

\* The runner process has ended.
Exited(i) == job_pc[i] \in {"delivered", "failed", "crashed"}

\* C16: a runner started with fewer than the 10 required arguments has
\* pushed an 'error' event when it has ended.
C16_MissingArgsReported ==
    \A i \in Ids :
        (argc[i] \in 1..9 /\ Exited(i)) => job_push[i].status = "error"

\* C17: a runner started without the seed argument, or with the literal
\* "None", leaves the seed stage with a seed of its own and goes on to
\* connect to the backend.
C17_SeedOptional ==
    [][\A i \in Ids :
          (/\ job_pc[i] = "seed"
           /\ job_pc'[i] # "seed"
           /\ seed[i] \in {"absent", "None"})
              => /\ seed'[i] = "int"
                 /\ job_pc'[i] = "connect"]_vars

\* The places of the images of imgs that are not intermediate.
C18_Candidates(imgs) ==
    {c \in (1..Len(imgs)) \X (1..MaxItems + 1) :
        /\ c[2] <= Len(imgs[c[1]])
        /\ ~StartsWith(imgs[c[1]][c[2]][2], temp_prefix)}

\* The candidate of the last node that has one, and the last of that node.
C18_Last(imgs) ==
    CHOOSE c \in C18_Candidates(imgs) :
        \A d \in C18_Candidates(imgs) :
            d[1] < c[1] \/ (d[1] = c[1] /\ d[2] <= c[2])

\* C18: the image the runner selects is the non-intermediate image that a
\* scan of the nodes in reverse order, and of the images of each node in
\* reverse order, finds first; when there is none, the runner posts no
\* result, pushes 'error' and ends.
C18_ArtifactSelection ==
    [][\A i \in Ids :
          /\ job_pc'[i] \in {"selected", "no_final"} =>
                /\ (job_pc'[i] = "no_final") <=> (C18_Candidates(images'[i]) = {})
                /\ final_image'[i] =
                      (IF C18_Candidates(images'[i]) = {} THEN None
                       ELSE images'[i][C18_Last(images'[i])[1]][C18_Last(images'[i])[2]])
          /\ (job_pc[i] = "no_final" /\ job_pc'[i] # "no_final") =>
                /\ job_pc'[i] = "failed"
                /\ job_push'[i].status = "error"
                /\ job_call'[i] = 0
                /\ UNCHANGED hgi_vars
          /\ (job_pc[i] # "posted" /\ job_pc'[i] = "posted") =>
                job_pc[i] = "post" /\ job_push[i].status = "finalizing"]_vars

C18_Witness ==
    \E i \in Ids :
        /\ job_pc[i] = "selected"
        /\ Len(images[i]) = 2
        /\ Len(images[i][1]) = 2
        /\ final_image[i] = <<<<1, 1>>, <<"ComfyUI_", "00001_.png">>>>

\* C19: for a key of the table the upscaled resolution is width times
\* factor, "x", height times factor (1024x1024 and factor 2 give
\* "2048x2048"); for any other key calculate_upscaled_resolution raises
\* and the runner goes on with "Unknown".
C19_UpscaledResolution ==
    [][\A i \in Ids :
          (/\ job_pc[i] = "seed"
           /\ job_pc'[i] # "seed"
           /\ seed[i] \in {"None", "digits"})
              => /\ job_pc'[i] = "connect"
                 /\ resolution[i] = "1:1" /\ upscale_factor[i] = 2
                       => upscaled_resolution'[i] = "2048x2048"
                 /\ resolution[i] = "16:9" /\ upscale_factor[i] = 2
                       => upscaled_resolution'[i] = "2688x1536"
                 /\ resolution[i] \in DOMAIN ratios_config /\ upscale_factor[i] = 1
                       => upscaled_resolution'[i] =
                             ToString(ratios_config[resolution[i]].width) \o "x"
                             \o ToString(ratios_config[resolution[i]].height)
                 /\ resolution[i] \notin DOMAIN ratios_config
                       => /\ calculate_upscaled_resolution(resolution[i], upscale_factor[i])
                                = "ValueError"
                          /\ upscaled_resolution'[i] = "Unknown"]_vars

C19_Witness ==
    \E i \in Ids :
        /\ job_pc[i] = "delivered"
        /\ resolution[i] = "4:3"
        /\ upscaled_resolution[i] = "Unknown"

\* C21: for every progress message of the backend with 0 <= value <= max
\* and max > 0, the percentage get_images computes is the integer quotient
\* of value * 100 by max, rounded down.
C21_PercentIsFloor ==
    \A i \in Ids :
        (/\ backend[i].monotonic
         /\ backend[i].max > 0
         /\ backend[i].value <= backend[i].max)
            => backend[i].progress = (backend[i].value * 100) \div backend[i].max

\* C22: when check_timeout has found its id pending, the entry is removed
\* before the timeout notification is sent: while the notification is in
\* flight, and once it is applied, the id is not in the registry.
C22_RemovedBeforeNotified ==
    \A i \in Ids :
        (ct_pc[i] \in {"edit", "resume"} \/ timed_out[i] > 0)
            => i \notin pending_requests

\* C23: handle_generated_image delivers the final notification, then
\* records the history entry, then removes the entry: no history entry is
\* recorded before its delivery, the handler removes no entry before it
\* has delivered and recorded, and when a call has answered 200 the
\* notification was delivered, the history recorded and the entry is gone.
C23_DeliverRecordRemove ==
    \A i \in Ids :
        /\ history[i] <= delivered[i]
        /\ "handle_generated_image" \in removed_by[i]
              => delivered[i] >= 1 /\ history[i] >= 1
        /\ \A h \in SendImageCalls :
              (hgi_resp[h] = "Success" /\ hgi_req[h].rid = i)
                 => /\ delivered[i] >= 1
                    /\ history[i] >= 1
                    /\ i \notin pending_requests

C23_Witness ==
    \E h \in SendImageCalls :
        /\ hgi_resp[h] = "Success"
        /\ "handle_generated_image" \in removed_by[hgi_req[h].rid]
        /\ message[hgi_req[h].rid] = [content |-> "none", embed |-> TRUE]

\* The message is an 'executing' message with a null node and the prompt id
\* queue_prompt returned for job i.
C24_Completion(i, out) ==
    /\ out.type = "executing"
    /\ out.node = None
    /\ out.prompt_id = prompt_response[i].prompt_id

\* C24: the read loop of get_images ends, and the runner goes on to fetch
\* the images, only on an 'executing' message with a null node and the
\* prompt id of this job; an 'executing' message with a null node and
\* another prompt id, a message of any other type and a progress report
\* keep the loop running.
C24_LoopExit ==
    [][\A i \in Ids :
          /\ job_pc[i] = "generate" =>
                /\ job_pc'[i] \in {"generate", "streamed", "except_inner"}
                /\ job_pc'[i] = "streamed" =>
                      \E out \in StreamMessages :
                          C24_Completion(i, out) /\ JobStream(i, out)
                /\ \A out \in StreamMessages :
                      (JobStream(i, out) /\ ~C24_Completion(i, out))
                          => job_pc'[i] = "generate"
                /\ \A m \in JobMessages :
                      JobProgress(i, m[1], m[2]) => job_pc'[i] = "generate"
          /\ (job_pc[i] # "fetch" /\ job_pc'[i] = "fetch") => job_pc[i] = "streamed"]_vars

C24_Witness ==
    \E i \in Ids :
        /\ job_pc[i] = "streamed"
        /\ job_push[i] = [status |-> "loading", result |-> "accepted"]

\* C25: when the answer of queue_prompt carries no prompt id, get_images
\* pushes 'error' and raises; the runner reads no message of the backend,
\* fetches no image and posts nothing to /send_image, then and ever after.
C25_NoPromptId ==
    /\ [][\A i \in Ids : \A r \in PromptResponses :
             (job_pc[i] = "queue" /\ "prompt_id" \notin DOMAIN r /\ JobQueuePrompt(i, r))
                => /\ job_pc'[i] = "except_inner"
                   /\ job_push'[i].status = "error"
                   /\ UNCHANGED <<hgi_vars, job_call>>]_vars
    /\ [](\A i \in Ids :
             "prompt_id" \notin DOMAIN prompt_response[i]
                => /\ job_pc[i] \notin {"generate", "streamed", "fetch", "selected",
                                       "no_final", "post", "posted", "delivered"}
                   /\ job_call[i] = 0
                   /\ images[i] = <<>>
                   /\ backend[i] = NoMessages
                   /\ emitted[i] = <<>>)

C25_Witness ==
    \E i \in Ids :
        /\ job_pc[i] = "failed"
        /\ "error" \in DOMAIN prompt_response[i]
        /\ job_push[i].status = "error"

\* C30: a run of the job runner pushes exactly one terminal event
\* ('complete' or 'error') and pushes nothing after it: at no time has it
\* pushed two terminal events or an event after a terminal one, and when it
\* has ended it has pushed one.
C30_OneTerminalEvent ==
    \A i \in Ids :
        /\ pushed[i].terminal <= 1
        /\ ~pushed[i].later
        /\ job_pc[i] \in {"delivered", "failed"} => pushed[i].terminal = 1

\* C26: an /update_progress call accepted for a pending id sends one edit
\* that replaces the content of the target and nothing else of it; the
\* content is message and percentage for 'generating', message and detail
\* for 'error' and the message alone for every other status.
C26_DisplayFormat ==
    [][\A p \in ProgressCalls :
          (up_pc[p] = "edit" /\ up_pc'[p] = "done")
             => LET i == up_req[p].rid
                    shape == CASE up_req[p].status = "generating" -> "message+percent"
                               [] up_req[p].status = "error" -> "message+detail"
                               [] OTHER -> "message"
                IN  /\ UpEdit(p, "ok") => message'[i].content = shape
                    /\ message'[i] # message[i] => message'[i].content = shape
                    /\ message'[i].embed = message[i].embed
                    /\ UNCHANGED <<delivered, timed_out, pending_requests>>]_vars

C26_Witness ==
    \E p \in ProgressCalls :
        /\ up_resp[p] = "Progress updated"
        /\ message[up_req[p].rid].content = "message+detail"

\* C27: an /update_progress call for a pending id answers 200 when the
\* target is not found or the edit is forbidden: the failure stays inside
\* update_progress_message and the target is left as it was.
C27_FailureNotPropagated ==
    [][\A p \in ProgressCalls :
          (up_pc[p] = "edit" /\ up_pc'[p] = "done")
             => /\ StatusOf(up_resp'[p]) = 200
                /\ (UpEdit(p, "NotFound") \/ UpEdit(p, "Forbidden"))
                      => /\ up_resp'[p] = "Progress updated"
                         /\ message' = message]_vars

C27_Witness ==
    \E p \in ProgressCalls :
        /\ up_resp[p] = "Progress updated"
        /\ up_req[p].rid \in pending_requests
        /\ message[up_req[p].rid] = InitialMessage

\* C28: a /send_image call that passed the validation never fails because
\* of its upscale_factor field: when every call into the collaborator
\* succeeds the final notification is delivered, whether the field is
\* there or not.
C28_UpscaleFactorNeverFails ==
    [][\A h \in SendImageCalls :
          (hgi_pc[h] = "edit" /\ HgiEdit(h, "ok")) => hgi_pc'[h] = "resume"]_vars

\* C29: once the final notification or the timeout notice has been applied
\* to the target of a request, no /update_progress call changes the target
\* again.
C29_NoProgressAfterTerminal ==
    [][\A p \in ProgressCalls :
          (/\ up_pc[p] = "edit"
           /\ up_pc'[p] = "done"
           /\ delivered[up_req[p].rid] + timed_out[up_req[p].rid] > 0)
              => message'[up_req[p].rid] = message[up_req[p].rid]]_vars

\* C31: the runner has pushed 'complete' only after its post to /send_image
\* was answered 200: never before the images were fetched and selected,
\* and never for a delivery that was rejected.
C31_CompleteAfterAccepted ==
    \A i \in Ids :
        job_push[i].status = "complete"
            => /\ job_call[i] # 0
               /\ hgi_resp[job_call[i]] = "Success"

\* C32: when the runner has ended after its post to /send_image was
\* answered, receiver and runner together have recorded one history entry
\* for the request when the answer was 200, and none when it was not.
C32_OneHistoryEntry ==
    \A i \in Ids :
        job_pc[i] = "delivered"
            => history[i] + job_history[i]
                  = (IF hgi_resp[job_call[i]] = "Success" THEN 1 ELSE 0)

\* C33: no step of an /update_progress call changes the registry, whatever
\* the body and whatever the answer (200, 400, 404, 500) or the outcome of
\* the edit.
C33_RegistryUntouched ==
    [][up_pc' # up_pc => UNCHANGED <<pending_requests, removed_by>>]_vars

C33_Witness ==
    \E p \in ProgressCalls :
        /\ up_resp[p] = "Progress updated"
        /\ up_req[p].rid \in pending_requests
        /\ message[up_req[p].rid].content = "message+detail"

\* C34: when the runner process has ended, the streaming session it opened
\* is closed: after a delivery, after a run without final image, and after
\* any exception during generation or delivery.
C34_SessionClosed ==
    \A i \in Ids : Exited(i) => ws[i] # "open"

C34_Witness ==
    \E i \in Ids :
        /\ job_pc[i] = "failed"
        /\ ws[i] = "closed"
        /\ job_call[i] # 0

====
